---------------------------- MODULE Spec2Model ----------------------------
(***************************************************************************)
(* Model of src/app.py: the Streamlit income counter.                      *)
(*                                                                         *)
(* One script run ("render pass") is one action.  A pass is started by a   *)
(* forced rerun (st.rerun), by a widget change or by a button click, and   *)
(* runs the script from the logging trigger to the statistics panel,       *)
(* unless an st.rerun() inside it ends it early.                           *)
(*                                                                         *)
(* Units.  The wall clock is counted in whole seconds from the start of    *)
(* the day, so time.time() and datetime.now().time() are both "clock".     *)
(* time.sleep(1) advances it by one; time.sleep(0.1) is shorter than the   *)
(* resolution and advances it by 0 or by 1.  Incomes are whole euros or    *)
(* cents, the tax is counted in 1/80000 euro, the unit in which            *)
(* 0.4525 * impot_brut is exact when impot_brut is a number of half cents. *)
(* total_earned_today holds the accumulator multiplied by                  *)
(* secondes_travaillees_annuel, in cents, so that adding                   *)
(* elapsed * revenu_par_seconde is adding elapsed * net_cash_annuel.       *)
(***************************************************************************)
EXTENDS Integers, Sequences, FiniteSets, TLC

VARIABLES
    \* st.session_state
    running, total_earned_today, last_update, last_logged_salary, log_sent,
    start_time,
    \* widget values of the sidebar
    salaire_brut_annuel, statut, autres_deductions, heure_debut, heure_fin,
    situation_familiale, parts_fiscales, autres_revenus,
    \* values computed by the last evaluation of the tax function
    net_imposable, impot,
    \* the environment: wall clock, cached connection, the spreadsheet
    clock, conn, wsExists, rows,
    \* the script runner: a rerun is requested; the page has been drawn once
    rerun, rendered,
    \* observation of the last step: step is "tick", or, for a render pass,
    \* "sent" when the pass ended at the logger's rerun and otherwise the
    \* button whose handler ran ("none" without a click); logCall is the
    \* result of the pass's call of the logger; progress is the value given
    \* to st.progress
    step, logCall, progress

sessionVars == <<running, total_earned_today, last_update, last_logged_salary,
                 log_sent, start_time>>
inputVars == <<salaire_brut_annuel, statut, autres_deductions, heure_debut,
               heure_fin>>
fiscVars == <<situation_familiale, parts_fiscales, autres_revenus>>
calcVars == <<net_imposable, impot>>
envVars == <<clock, conn, wsExists, rows>>
runVars == <<rerun, rendered>>
obsVars == <<step, logCall, progress>>
vars == <<sessionVars, inputVars, fiscVars, calcVars, envVars, runVars, obsVars>>

-----------------------------------------------------------------------------
(* Bounds of the model *)

MaxClock == 2
MaxRows == 3

(* Python's None is the empty tuple, a value v is <<v>>. *)
None == <<>>
Some(v) == <<v>>

Max(a, b) == IF a >= b THEN a ELSE b
Min(a, b) == IF a <= b THEN a ELSE b

-----------------------------------------------------------------------------
(* Tax and salary pipeline *)

\* 1/80000 euro: the tax unit
UnitsPerEuro == 200 * 400
UnitsPerCent == UnitsPerEuro \div 100

\* taux_charges in per mille
TauxCharges(st) == IF st = "Cadre" THEN 255 ELSE 230

\* net_avant_impot in cents, brut_annuel in euros
CalculateNetAvantImpot(brut_annuel, st) ==
    (brut_annuel * (1000 - TauxCharges(st))) \div 10

\* net_avant_impot * 1.07, in cents
CalculateNetImposable(net_avant_impot) == (net_avant_impot * 107) \div 100

\* the 2024 brackets: lower bound, upper bound (euros), rate (percent)
Infinity == 2000000000
tranches == << <<0, 11294, 0>>, <<11294, 28797, 11>>, <<28797, 82341, 30>>,
               <<82341, 177106, 41>>, <<177106, Infinity, 45>> >>

\* impot_par_part in cents, revenu_par_part in euros
RECURSIVE ImpotParPart(_, _)
ImpotParPart(revenu_par_part, i) ==
    IF i > Len(tranches) THEN 0
    ELSE LET t == tranches[i]
         IN  (IF revenu_par_part > t[1]
              THEN (Min(revenu_par_part, t[2]) - t[1]) * t[3]
              ELSE 0) + ImpotParPart(revenu_par_part, i + 1)

\* the constant term of the decote, in euros
DecoteBase(situation) == IF situation = "Celibataire" THEN 833 ELSE 1378

\* decote in tax units; impot_brut_h in half cents; 0.4525 = 181 / 400
Decote(situation, impot_brut_h) ==
    DecoteBase(situation) * UnitsPerEuro - 181 * impot_brut_h

\* mutant: the floor at 0 is missing
ImpotNoFloor(impot_final) == impot_final

\* max(0, impot_final), in tax units
ImpotFloor(impot_final) == Max(0, impot_final)

\* calculate_impot: net_imposable and autres in euros, parts2 the number of
\* parts in halves; the result in tax units.  revenu_par_part is exact when
\* parts2 divides twice the income, which the specifications arrange.
CalculateImpot(net_imp, parts2, autres, situation) ==
    LET revenu_total_imposable == net_imp + autres
        revenu_par_part == (2 * revenu_total_imposable) \div parts2
        impot_par_part == ImpotParPart(revenu_par_part, 1)
        impot_brut_h == impot_par_part * parts2
        impot_brut == 400 * impot_brut_h
        decote == Decote(situation, impot_brut_h)
        impot_final == IF decote > 0 THEN impot_brut - decote ELSE impot_brut
    IN  [impot_final |-> ImpotFloor(impot_final),
         impot_brut |-> impot_brut,
         decote |-> IF decote > 0 THEN decote ELSE 0]

\* widget defaults that the counter specification leaves alone
heures_semaine == 35
semaines_travaillees == 47
mutuelle == 0
retraite_supp == 0
abonnement_transport == 0
pourcentage_remboursement == 50

\* part_salariale_transport, in cents
PartSalarialeTransport ==
    abonnement_transport * (100 - pourcentage_remboursement)

\* deductions_annuelles in cents
DeductionsAnnuelles(autres_ded) ==
    (mutuelle * 100 + retraite_supp * 100 + PartSalarialeTransport
       + autres_ded * 100) * 12

\* the tax mode and the manual rate (per mille) keep their defaults
mode_impot == "Calcul automatique (bareme 2024)"
taux_prelevement == 100

\* impot_annuel in cents (lines 311-323); the tax function is given the
\* taxable income in euros
ImpotAnnuel(net_avant_impot, net_imp, parts2, autres, situation) ==
    IF mode_impot = "Taux de prelevement manuel"
    THEN (net_avant_impot * taux_prelevement) \div 1000
    ELSE CalculateImpot(net_imp \div 100, parts2, autres, situation).impot_final
             \div UnitsPerCent

\* net_cash_annuel in cents (lines 305-333)
NetCashAnnuel(brut, st, autres_ded, parts2, autres, situation) ==
    LET net_avant_impot == CalculateNetAvantImpot(brut, st)
        net_imp == CalculateNetImposable(net_avant_impot)
        impot_annuel == ImpotAnnuel(net_avant_impot, net_imp, parts2, autres,
                                    situation)
        net_apres_impot_annuel == net_avant_impot - impot_annuel
    IN  net_apres_impot_annuel - DeductionsAnnuelles(autres_ded)

\* secondes_travaillees_annuel
SecondesTravailleesAnnuel == heures_semaine * semaines_travaillees * 3600

\* revenu_par_jour / revenu_par_seconde = 3600 * heures_semaine / 5
SecondesParJour == (3600 * heures_semaine) \div 5

-----------------------------------------------------------------------------
(* Remote usage logger *)

HeaderRow == <<"Timestamp", "Salaire Brut", "Statut", "User Info">>

\* row_data as the sheet stores it, cell by cell as text;
\* strftime("%Y-%m-%d %H:%M:%S") keeps the whole seconds
RowData(salaire, st, timestamp) ==
    <<ToString(timestamp), ToString(salaire), st, "User">>

\* where the call may raise: authorisation, opening the spreadsheet or its
\* worksheet, add_worksheet, the header's append_row, the data row's append_row
FailPoints == {"none", "auth", "open", "add", "header", "data"}

\* get_google_sheets_connection under st.cache_resource: the first result,
\* None included, is cached
GetGoogleSheetsConnection(c, failAt) ==
    IF c = "unset" THEN (IF failAt = "auth" THEN "none" ELSE "client") ELSE c

\* the worksheet after lines 49-54, with whether the block raised
OpenLogs(ws, rs, failAt) ==
    IF ws
    THEN [raised |-> FALSE, ws |-> TRUE, rows |-> rs]
    ELSE IF failAt = "add"
         THEN [raised |-> TRUE, ws |-> FALSE, rows |-> rs]
         ELSE IF failAt = "header"
              THEN [raised |-> TRUE, ws |-> TRUE, rows |-> <<>>]
              ELSE [raised |-> FALSE, ws |-> TRUE, rows |-> <<HeaderRow>>]

\* log_to_google_sheet: the result, the cached connection and the sheet
LogToGoogleSheet(c, ws, rs, salaire, st, timestamp, failAt) ==
    LET client == GetGoogleSheetsConnection(c, failAt)
        opened == OpenLogs(ws, rs, failAt)
    IN  IF client = "none" \/ failAt = "open"
        THEN [ok |-> FALSE, conn |-> client, ws |-> ws, rows |-> rs]
        ELSE IF opened.raised \/ failAt = "data"
             THEN [ok |-> FALSE, conn |-> client, ws |-> opened.ws,
                   rows |-> opened.rows]
             ELSE [ok |-> TRUE, conn |-> client, ws |-> opened.ws,
                   rows |-> Append(opened.rows, RowData(salaire, st, timestamp))]

-----------------------------------------------------------------------------
(* Session state and the handlers of one render pass *)

Session == [running |-> running, total_earned_today |-> total_earned_today,
            last_update |-> last_update,
            last_logged_salary |-> last_logged_salary,
            log_sent |-> log_sent, start_time |-> start_time]

\* mutant: the changed salary is remembered but log_sent is not cleared
DetectChangeNoReset(s, salaire) ==
    IF Some(salaire) # s.last_logged_salary /\ salaire > 0
    THEN [s EXCEPT !.last_logged_salary = Some(salaire)]
    ELSE s

\* lines 163-165
DetectChange(s, salaire) ==
    IF Some(salaire) # s.last_logged_salary /\ salaire > 0
    THEN [s EXCEPT !.last_logged_salary = Some(salaire), !.log_sent = FALSE]
    ELSE s

\* line 174: the append is attempted
LogDue(s, salaire) == ~s.log_sent /\ salaire > 0

\* mutant: log_sent is set whatever the call returned
AfterLogAlways(s, success) == [s EXCEPT !.log_sent = TRUE]

\* lines 181-182
AfterLog(s, success) == IF success THEN [s EXCEPT !.log_sent = TRUE] ELSE s

\* mutant: the boundaries are excluded
IsWorkHoursStrict(debut, now, fin) == debut < now /\ now < fin

\* line 347
IsWorkHours(debut, now, fin) == debut <= now /\ now <= fin

\* mutant: the toggle does not restamp last_update
ToggleNoStamp(s, now) == [s EXCEPT !.running = ~s.running]

\* lines 378-380
TogglePressed(s, now) ==
    [s EXCEPT !.running = ~s.running, !.last_update = now]

\* mutant: the reset also stops the counter
ResetStops(s, now) ==
    [s EXCEPT !.total_earned_today = 0, !.start_time = None,
              !.last_update = now, !.running = FALSE]

\* lines 383-386
ResetPressed(s, now) ==
    [s EXCEPT !.total_earned_today = 0, !.start_time = None, !.last_update = now]

\* lines 389-406
SyncPressed(s, now, debut, fin, net_cash) ==
    IF debut <= now /\ now <= fin
    THEN [s EXCEPT !.total_earned_today = (now - debut) * net_cash,
                   !.start_time = Some(now), !.last_update = now]
    ELSE s

\* lines 415-418
Accrue(s, now, net_cash) ==
    [s EXCEPT !.total_earned_today = @ + (now - s.last_update) * net_cash,
              !.last_update = now]

\* lines 442-445: the value given to st.progress, when the panel shows it.
\* full: the ratio reached 1.0 and is clamped; otherwise the value is
\* num / (SecondesParJour * den), with den > 0
Progression(total, net_cash) ==
    IF net_cash > 0
    THEN Some([full |-> total \div SecondesParJour >= net_cash,
               num |-> total, den |-> net_cash])
    ELSE None

Buttons == {"none", "toggle", "reset", "sync"}

\* mutant: the accrual block does not force another pass
RerunRequestedNoLoop(ex) == ex \in {"log", "sync"}

\* st.rerun() at lines 185, 409 and 425: every pass that does not run to the
\* end of the script forces another one
RerunRequested(ex) == ex # "end"

SetSession(s) ==
    /\ running' = s.running
    /\ total_earned_today' = s.total_earned_today
    /\ last_update' = s.last_update
    /\ last_logged_salary' = s.last_logged_salary
    /\ log_sent' = s.log_sent
    /\ start_time' = s.start_time

-----------------------------------------------------------------------------
(* Input sets *)

Salaires == {0, 20000, 99999}
AutresDeductions == {0, 2000}

-----------------------------------------------------------------------------
(* One render pass: the script from line 151 to line 450.                  *)
(* sal .. fin are the widget values it reads;                              *)
(* button is the button whose click started it; failAt is where the        *)
(* spreadsheet call raises; d is what time.sleep(0.1) adds to the clock.   *)

Render(sal, st, ded, deb, fin, button, failAt, d) ==
    LET s1 == DetectChange(Session, sal)
        due == LogDue(s1, sal)
        lg == LogToGoogleSheet(conn, wsExists, rows, sal, st, clock, failAt)
        sent == due /\ lg.ok
        s2 == AfterLog(s1, sent)
        net_avant_impot == CalculateNetAvantImpot(sal, st)
        net_imp == CalculateNetImposable(net_avant_impot)
        net_cash == NetCashAnnuel(sal, st, ded, parts_fiscales, autres_revenus,
                                  situation_familiale)
        is_work_hours == IsWorkHours(deb, clock, fin)
        s3 == CASE button = "toggle" -> TogglePressed(s2, clock)
                [] button = "reset" -> ResetPressed(s2, clock)
                [] button = "sync" -> SyncPressed(s2, clock, deb, fin, net_cash)
                [] OTHER -> s2
        ticking == s3.running /\ is_work_hours
        s4 == IF ticking THEN Accrue(s3, clock, net_cash) ELSE s3
        \* where the pass ends: st.rerun() at line 185, 409 or 425, or the end
        ex == IF sent THEN "log"
              ELSE IF button = "sync" THEN "sync"
              ELSE IF ticking THEN "tick" ELSE "end"
        final == CASE ex = "log" -> s2 [] ex = "sync" -> s3 [] OTHER -> s4
        dt == IF ex \in {"log", "sync"} THEN 1 ELSE IF ex = "tick" THEN d ELSE 0
    IN  /\ due \/ failAt = "none"
        /\ failAt = "auth" => conn = "unset"
        /\ failAt \in {"add", "header"} => ~wsExists
        /\ ex = "tick" \/ d = 0
        /\ clock + dt <= MaxClock
        /\ due => Len(lg.rows) <= MaxRows
        /\ salaire_brut_annuel' = sal
        /\ statut' = st
        /\ autres_deductions' = ded
        /\ heure_debut' = deb
        /\ heure_fin' = fin
        /\ UNCHANGED fiscVars
        /\ SetSession(final)
        /\ IF ex = "log"
           THEN UNCHANGED calcVars
           ELSE /\ net_imposable' = net_imp
                /\ impot' = Some(CalculateImpot(net_imp \div 100, parts_fiscales,
                                     autres_revenus, situation_familiale))
        /\ clock' = clock + dt
        /\ conn' = IF due THEN lg.conn ELSE conn
        /\ wsExists' = IF due THEN lg.ws ELSE wsExists
        /\ rows' = IF due THEN lg.rows ELSE rows
        /\ rerun' = RerunRequested(ex)
        /\ rendered' = TRUE
        /\ step' = IF sent THEN "sent" ELSE button
        /\ logCall' = IF ~due THEN "none" ELSE IF lg.ok THEN "ok" ELSE "fail"
        /\ progress' = IF ex = "end"
                       THEN Progression(final.total_earned_today, net_cash)
                       ELSE None

\* the forced rerun (and the first run of the session)
Rerun ==
    /\ rerun
    /\ \E failAt \in FailPoints, d \in {0, 1} :
         Render(salaire_brut_annuel, statut, autres_deductions,
                heure_debut, heure_fin, "none", failAt, d)

ChangeSalaire ==
    /\ rendered
    /\ \E v \in Salaires \ {salaire_brut_annuel}, failAt \in FailPoints,
          d \in {0, 1} :
         Render(v, statut, autres_deductions, heure_debut, heure_fin,
                "none", failAt, d)


ChangeDeductions ==
    /\ rendered
    /\ \E v \in AutresDeductions \ {autres_deductions}, failAt \in FailPoints,
          d \in {0, 1} :
         Render(salaire_brut_annuel, statut, v, heure_debut, heure_fin,
                "none", failAt, d)



PressToggle ==
    /\ rendered
    /\ \E failAt \in FailPoints, d \in {0, 1} :
         Render(salaire_brut_annuel, statut, autres_deductions,
                heure_debut, heure_fin, "toggle", failAt, d)

PressReset ==
    /\ rendered
    /\ \E failAt \in FailPoints, d \in {0, 1} :
         Render(salaire_brut_annuel, statut, autres_deductions,
                heure_debut, heure_fin, "reset", failAt, d)

PressSync ==
    /\ rendered
    /\ \E failAt \in FailPoints, d \in {0, 1} :
         Render(salaire_brut_annuel, statut, autres_deductions,
                heure_debut, heure_fin, "sync", failAt, d)

\* wall-clock time passes while no script run is pending
Tick ==
    /\ ~rerun
    /\ clock < MaxClock
    /\ clock' = clock + 1
    /\ step' = "tick"
    /\ logCall' = "none"
    /\ UNCHANGED <<sessionVars, inputVars, fiscVars, calcVars, conn, wsExists,
                   rows, runVars, progress>>

\* lines 72-83 and the widget defaults; the first script run is pending
InitSession ==
    /\ running = FALSE
    /\ total_earned_today = 0
    /\ clock = 0
    /\ last_update = 0
    /\ last_logged_salary = None
    /\ log_sent = FALSE
    /\ start_time = None
    /\ salaire_brut_annuel = 99999
    /\ statut = "Cadre"
    /\ autres_deductions = 0
    /\ heure_debut = 1
    /\ heure_fin = 2
    /\ conn = "unset"
    /\ wsExists = FALSE
    /\ rows = <<>>
    /\ rerun = TRUE
    /\ rendered = FALSE
    /\ step = "init"
    /\ logCall = "none"
    /\ progress = None

Init ==
    /\ InitSession
    /\ situation_familiale = "Celibataire"
    /\ parts_fiscales = 2
    /\ autres_revenus = 0
    /\ net_imposable = 0
    /\ impot = None

Next ==
    \/ Rerun
    \/ ChangeSalaire
    \/ ChangeDeductions
    \/ PressToggle
    \/ PressReset
    \/ PressSync
    \/ Tick

Spec == Init /\ [][Next]_vars

\* the same program when the deductions widgets (lines 253-294) are left at
\* their defaults: every other widget and button is used
NextFixedDeductions ==
    \/ Rerun
    \/ ChangeSalaire
    \/ PressToggle
    \/ PressReset
    \/ PressSync
    \/ Tick

SpecFixedDeductions == Init /\ [][NextFixedDeductions]_vars

-----------------------------------------------------------------------------
(* The tax function on its own: the inputs are drawn, one step applies it. *)
(* The incomes are multiples of 6 euros, so that the income per part is a  *)
(* whole number of euros for 1, 1.5 and 2 parts.                           *)

NetImposables == {0, 6000, 11292, 11298, 12000, 13200, 15000, 16476, 16512,
                  18000, 19998, 24000, 28794, 28800, 30000, 32532, 36000}
PartsFiscales == {2, 3, 4}
AutresRevenus == {0, 6000}
Situations == {"Celibataire", "Couple"}

InitImpot ==
    /\ InitSession
    /\ situation_familiale \in Situations
    /\ parts_fiscales \in PartsFiscales
    /\ autres_revenus \in AutresRevenus
    /\ net_imposable \in {100 * e : e \in NetImposables}
    /\ impot = None

ComputeImpot ==
    /\ impot = None
    /\ impot' = Some(CalculateImpot(net_imposable \div 100, parts_fiscales,
                                    autres_revenus, situation_familiale))
    /\ UNCHANGED <<sessionVars, inputVars, fiscVars, net_imposable, envVars,
                   runVars, obsVars>>

NextImpot == ComputeImpot

SpecImpot == InitImpot /\ [][NextImpot]_vars

-----------------------------------------------------------------------------
(* Properties *)

\* net_cash_annuel for the current widget values
NetCash ==
    NetCashAnnuel(salaire_brut_annuel, statut, autres_deductions, parts_fiscales,
                  autres_revenus, situation_familiale)

\* C1: logging de-duplication.  While log_sent is true and the salary read
\* by a step is the logged positive value, the step makes no append call and
\* leaves the sheet alone.  A pass that reads a positive salary other than
\* last_logged_salary records it, makes one call, and leaves log_sent true
\* exactly when that call succeeded; a successful call appends the one row
\* of that salary.
C1_LogDedup ==
    [][ /\ (log_sent /\ salaire_brut_annuel' > 0
              /\ Some(salaire_brut_annuel') = last_logged_salary)
           => (logCall' = "none" /\ log_sent' /\ rows' = rows)
        /\ (salaire_brut_annuel' > 0
              /\ Some(salaire_brut_annuel') # last_logged_salary)
           => /\ logCall' # "none"
              /\ last_logged_salary' = Some(salaire_brut_annuel')
              /\ log_sent' = (logCall' = "ok")
        /\ logCall' = "ok"
           => /\ Len(rows') > Len(rows)
              /\ rows'[Len(rows')] = <<ToString(clock), ToString(salaire_brut_annuel'),
                                     statut', "User">>
              /\ \A i \in 1..Len(rows) : rows'[i] = rows[i]
      ]_vars

\* two different salaries have each been logged once, and a later pass with
\* the second one made no call
C1_Witness ==
    /\ step = "none" /\ logCall = "none" /\ log_sent
    /\ Len(rows) = 3 /\ rows[1] = HeaderRow
    /\ rows[2][2] # rows[3][2]
    /\ ToString(salaire_brut_annuel) = rows[3][2]

\* C2: retry on failure.  A failed call leaves log_sent false, and in a pass
\* with no button and no accrual it leaves running, the accumulator,
\* last_update and start_time as they were; every render pass that starts
\* with log_sent false and reads a salary > 0 calls the logger; a call that
\* succeeds sets log_sent.
C2_RetryOnFailure ==
    [][ /\ logCall' = "fail"
           => /\ ~log_sent'
              /\ last_logged_salary' = Some(salaire_brut_annuel')
              /\ (step' = "none" /\ ~(running /\ heure_debut <= clock
                                        /\ clock <= heure_fin))
                 => UNCHANGED <<running, total_earned_today, last_update,
                                start_time>>
        /\ (~log_sent /\ salaire_brut_annuel' > 0 /\ step' # "tick")
           => logCall' # "none"
        /\ logCall' = "ok" => log_sent'
      ]_vars

\* the first call, at time 0, failed, and a retry at a later time succeeded
C2_Witness ==
    /\ log_sent /\ logCall = "ok"
    /\ Len(rows) = 2 /\ rows[1] = HeaderRow
    /\ rows[2][1] # "0" /\ rows[2][2] = "99999"

\* C3: header before data.  The Logs worksheet holds no data row unless its
\* first row is the header.
C3_HeaderBeforeData ==
    (wsExists /\ Len(rows) > 0) => rows[1] = HeaderRow

\* C4: exact accrual coverage, stated for one pass.  Every toggle restamps
\* last_update, so a session that is Running has been Running since
\* last_update; a pass with no button that finds it Running adds the rate
\* times the part of [last_update, now] that lies inside the work hours.
C4_ExactCoverage ==
    [][ (step' = "none" /\ running)
        => total_earned_today' - total_earned_today
             = NetCash' * Max(0, Min(clock, heure_fin')
                                    - Max(last_update, heure_debut'))
      ]_vars

\* C5: accrual guard.  A pass that reaches the counter with no reset and no
\* sync adds elapsed * rate when the running flag is true and
\* start <= now <= end, and leaves the accumulator alone otherwise; so does
\* a pass that ends at the logger's rerun, and so does the passing of time.
C5_AccrualGuard ==
    [][ /\ step' \in {"none", "toggle"}
           => IF running' /\ heure_debut' <= clock /\ clock <= heure_fin'
              THEN total_earned_today' = total_earned_today
                     + (IF step' = "toggle" THEN 0 ELSE clock - last_update)
                         * NetCash'
              ELSE total_earned_today' = total_earned_today
        /\ step' \in {"tick", "sent"}
           => total_earned_today' = total_earned_today
      ]_vars

\* an accrual at the first second of the work hours added to the accumulator
C5_Witness ==
    /\ step = "none" /\ running /\ rerun
    /\ last_update = heure_debut
    /\ total_earned_today # 0 /\ start_time = None

\* C6: toggle.  The pass of a toggle click flips running, stamps last_update
\* with the time of the click and leaves the accumulator unchanged, also
\* when the session resumes inside the work hours after a pause.
C6_Toggle ==
    [][ step' = "toggle"
        => /\ running' = ~running
           /\ last_update' = clock
           /\ total_earned_today' = total_earned_today
      ]_vars

\* a click that resumes the session inside the work hours, with a rate that
\* is not zero and an accumulator that is not zero
C6_Witness ==
    /\ step = "toggle" /\ running /\ rerun
    /\ last_update >= 1 /\ NetCash # 0
    /\ total_earned_today # 0

\* C7: daily reset.  The pass of a reset click sets the accumulator to 0,
\* start_time to None and last_update to the time of the click, and leaves
\* running, last_logged_salary and log_sent unchanged.
C7_Reset ==
    [][ step' = "reset"
        => /\ total_earned_today' = 0
           /\ start_time' = None
           /\ last_update' = clock
           /\ running' = running
           /\ last_logged_salary' = last_logged_salary
           /\ log_sent' = log_sent
      ]_vars

\* a reset of a Running session inside the work hours, after its log went out
C7_Witness ==
    /\ step = "reset" /\ running /\ rerun /\ log_sent
    /\ total_earned_today = 0 /\ start_time = None /\ last_update >= 1

\* C8: the accumulator is never negative.
C8_NonNegative == total_earned_today >= 0

\* C9: the value given to the progress indicator lies in [0, 1].
C9_ProgressClamp ==
    progress # None => (progress[1].full \/ progress[1].num >= 0)

\* C10: decote and floor.  With discount = 833 - 0.4525 * gross_tax (Single)
\* or 1378 - 0.4525 * gross_tax (Couple): the reported discount is the
\* discount when it is > 0 and 0 otherwise, the final tax is gross_tax less
\* the reported discount, floored at 0, and 0 <= final tax <= gross_tax.
C10_Decote ==
    impot # None =>
      LET r == impot[1]
          base == IF situation_familiale = "Celibataire" THEN 833 ELSE 1378
          discount == base * 80000 - (r.impot_brut \div 400) * 181
      IN  /\ r.impot_brut >= 0
          /\ r.impot_brut % 400 = 0
          /\ r.decote = (IF discount > 0 THEN discount ELSE 0)
          /\ r.impot_final =
               (IF r.impot_brut - r.decote >= 0 THEN r.impot_brut - r.decote ELSE 0)
          /\ 0 <= r.impot_final /\ r.impot_final <= r.impot_brut

\* a gross tax above 0 that the discount exceeds: the floor gives 0
C10_Witness ==
    /\ impot # None
    /\ impot[1].impot_brut > 0 /\ impot[1].decote > impot[1].impot_brut
    /\ impot[1].impot_final = 0

C11_WitnessIdle ==
    /\ step = "toggle" /\ running /\ ~rerun
    /\ clock < heure_debut

=============================================================================
